---------------------------- MODULE Spec2Model ----------------------------
(***************************************************************************)
(* A model of the go-ovsdb client: the encoding of transact operations,    *)
(* the Transact call with the decoding of its reply, the dispatch of       *)
(* notifications through the process-wide clientsMap, the lifetime of a    *)
(* Client (Dial, GetSchema, the close of its connection), and the wire     *)
(* codecs of the value types and of the column schema.                     *)
(*                                                                         *)
(* JSON text is modelled by its value tree.  A JSON value is a record      *)
(* tagged by t: "null", "str", "num", "bool", "arr" (v a sequence of JSON  *)
(* values) and "obj" (v a sequence of <<key, JSON value>> members, in the  *)
(* order they are written).  Go values are tagged by k, so that encoding   *)
(* a Go value is a conversion and not the identity.                        *)
(***************************************************************************)
EXTENDS Integers, Sequences, FiniteSets, TLC

VARIABLES
    opIn,        \* the value last handed to json.Marshal, the JSON text and
                 \* the target last handed to json.Unmarshal, or the Client
                 \* and the database last handed to GetSchema
    opOut,       \* what the call returned: [err, bytes], or [err, target]
    txPc,        \* position of the caller of Client.Transact
    txOps,       \* the operations passed to Transact
    wire,        \* request frames written to the connection by the current call
    txReply,     \* the reply body the server sent for the call
    txResult,    \* the TransactResult returned: [Results, Errors]
    txErr,       \* the error returned by Transact ("" is nil)
    sess,        \* the Clients made by Dial, by client id
    clientsMap,  \* the process-wide map from *rpc2.Client to *Client
    clientsLock, \* the sync.RWMutex guarding clientsMap
    disp,        \* per *rpc2.Client: the goroutine running a notification handler
    delivered    \* the outcome of the notification handler that returned last

opVars == <<opIn, opOut>>
txVars == <<txPc, txOps, wire, txReply, txResult, txErr>>
sessVars == <<sess, clientsMap, clientsLock, disp, delivered>>
vars == <<opIn, opOut, txPc, txOps, wire, txReply, txResult, txErr,
          sess, clientsMap, clientsLock, disp, delivered>>

---------------------------------------------------------------------------
(* Bounds of the model *)

MaxWhere == 2
MaxMutations == 2
MaxOps == 2
MaxReply == 3
MaxSessions == 2
MaxElems == 2
MaxArity == 3
MaxMembers == 3

---------------------------------------------------------------------------
(* JSON values *)

JNull == [t |-> "null"]
JStr(s) == [t |-> "str", v |-> s]
JNum(n) == [t |-> "num", v |-> n]
JArr(seq) == [t |-> "arr", v |-> seq]
JObj(members) == [t |-> "obj", v |-> members]

\* The keys of a JSON object, in the order written.
Keys(j) == [i \in 1..Len(j.v) |-> j.v[i][1]]

\* No bytes: what a MarshalJSON that fails returns (nil, err).
NoBytes == [t |-> "none"]

(* Go values of the Value interface used in rows, conditions and mutations *)
GoString(s) == [k |-> "string", s |-> s]
GoInt(n) == [k |-> "int", n |-> n]

\* encoding/json on a Go scalar held in an interface{}.
MarshalValue(x) ==
    IF x.k = "string" THEN JStr(x.s) ELSE JNum(x.n)

---------------------------------------------------------------------------
(* Operations: src/operation.go *)

OpInsert == "insert"
OpSelect == "select"
OpUpdate == "update"
OpMutate == "mutate"

FuncLt == "<"
FuncLe == "<="
FuncEq == "=="
FuncNe == "!="
FuncGt == ">"
FuncGe == ">="
FuncInc == "includes"
FuncExc == "excludes"

MutatorPluEq == "+="
MutatorMinEq == "-="
MutatorMulEq == "*="
MutatorDivEq == "/="
MutatorModEq == "%="
MutatorInsert == "insert"
MutatorDelete == "delete"

\* Condition.Valid
ConditionValid(c) ==
    c.Function \in {FuncLt, FuncLe, FuncEq, FuncNe, FuncGt, FuncGe, FuncInc, FuncExc}

MutationValidAny(m) == TRUE

\* Mutation.Valid
MutationValid(m) ==
    m.Mutator \in {MutatorPluEq, MutatorMinEq, MutatorMulEq, MutatorDivEq,
                   MutatorModEq, MutatorInsert, MutatorDelete}

\* Condition.MarshalJSON: the 3-element array [column, function, value]
ConditionMarshalJSON(c) ==
    JArr(<<JStr(c.Column), JStr(c.Function), MarshalValue(c.Value)>>)

\* Mutation.MarshalJSON: the 3-element array [column, mutator, value]
MutationMarshalJSON(m) ==
    JArr(<<JStr(m.Column), JStr(m.Mutator), MarshalValue(m.Value)>>)

\* A Row is a Go map: nil, or a function from its columns to Values.
\* encoding/json writes a map's members sorted by key; ColumnOrder is the
\* sorted order of the columns the model uses.
ColumnOrder == <<"c", "d">>
NilRow == [isNil |-> TRUE, m |-> <<>>]
MkRow(f) == [isNil |-> FALSE, m |-> f]
RowLen(row) == IF row.isNil THEN 0 ELSE Cardinality(DOMAIN row.m)

MarshalRow(row) ==
    IF row.isNil THEN JNull
    ELSE LET present == SelectSeq(ColumnOrder, LAMBDA c : c \in DOMAIN row.m)
         IN JObj([i \in 1..Len(present) |->
                    <<present[i], MarshalValue(row.m[present[i]])>>])

MarshalConditions(where) ==
    JArr([i \in 1..Len(where) |-> ConditionMarshalJSON(where[i])])

MarshalMutations(muts) ==
    JArr([i \in 1..Len(muts) |-> MutationMarshalJSON(muts[i])])

MarshalIDs(ids) ==
    JArr([i \in 1..Len(ids) |-> JStr(ids[i])])

\* encoding/json on the anonymous struct temp: the fields in declaration
\* order; a field tagged omitempty is left out when its Go value is empty.
\* A field is [key, val, omitempty, empty].
MarshalStruct(fields) ==
    LET kept == SelectSeq(fields, LAMBDA f : ~(f.omitempty /\ f.empty))
    IN JObj([i \in 1..Len(kept) |-> <<kept[i].key, kept[i].val>>])

Field(key, val) == [key |-> key, val |-> val, omitempty |-> FALSE, empty |-> FALSE]
FieldOmitEmpty(key, val, empty) ==
    [key |-> key, val |-> val, omitempty |-> TRUE, empty |-> empty]

Fail(msg) == [err |-> msg, bytes |-> NoBytes]
Ok(bytes) == [err |-> "", bytes |-> bytes]

InsertMarshalJSONNoRowCheck(insert) ==
    IF Len(insert.Table) = 0 THEN Fail("Table field is required")
    ELSE Ok(MarshalStruct(<<
            Field("op", JStr(OpInsert)),
            Field("table", JStr(insert.Table)),
            Field("row", MarshalRow(insert.Row)),
            FieldOmitEmpty("uuid-name", JStr(insert.UUIDName),
                           Len(insert.UUIDName) = 0)>>))

\* InsertOperation.MarshalJSON
InsertMarshalJSON(insert) ==
    IF Len(insert.Table) = 0 THEN Fail("Table field is required")
    ELSE IF insert.Row.isNil THEN Fail("Row field is required")
    ELSE Ok(MarshalStruct(<<
            Field("op", JStr(OpInsert)),
            Field("table", JStr(insert.Table)),
            Field("row", MarshalRow(insert.Row)),
            FieldOmitEmpty("uuid-name", JStr(insert.UUIDName),
                           Len(insert.UUIDName) = 0)>>))

SelectMarshalJSONAlwaysColumns(s) ==
    IF Len(s.Table) = 0 THEN Fail("Table field is required")
    ELSE IF Len(s.Where) = 0 THEN Fail("Where field is required")
    ELSE IF \E i \in 1..Len(s.Where) : ~ConditionValid(s.Where[i])
         THEN Fail("Invalid condition")
    ELSE Ok(MarshalStruct(<<
            Field("op", JStr(OpSelect)),
            Field("table", JStr(s.Table)),
            Field("where", MarshalConditions(s.Where)),
            Field("columns", MarshalIDs(s.Columns))>>))

\* SelectOperation.MarshalJSON
SelectMarshalJSON(s) ==
    IF Len(s.Table) = 0 THEN Fail("Table field is required")
    ELSE IF Len(s.Where) = 0 THEN Fail("Where field is required")
    ELSE IF \E i \in 1..Len(s.Where) : ~ConditionValid(s.Where[i])
         THEN Fail("Invalid condition")
    ELSE Ok(MarshalStruct(<<
            Field("op", JStr(OpSelect)),
            Field("table", JStr(s.Table)),
            Field("where", MarshalConditions(s.Where)),
            FieldOmitEmpty("columns", MarshalIDs(s.Columns),
                           Len(s.Columns) = 0)>>))

UpdateMarshalJSONNilRowOnly(u) ==
    IF Len(u.Table) = 0 THEN Fail("Table field is required")
    ELSE IF Len(u.Where) = 0 THEN Fail("Where field is required")
    ELSE IF u.Row.isNil THEN Fail("Row field is required")
    ELSE IF \E i \in 1..Len(u.Where) : ~ConditionValid(u.Where[i])
         THEN Fail("Invalid condition")
    ELSE Ok(MarshalStruct(<<
            Field("op", JStr(OpUpdate)),
            Field("table", JStr(u.Table)),
            Field("where", MarshalConditions(u.Where)),
            Field("row", MarshalRow(u.Row))>>))

\* UpdateOperation.MarshalJSON
UpdateMarshalJSON(u) ==
    IF Len(u.Table) = 0 THEN Fail("Table field is required")
    ELSE IF Len(u.Where) = 0 THEN Fail("Where field is required")
    ELSE IF RowLen(u.Row) = 0 THEN Fail("Row field is required")
    ELSE IF \E i \in 1..Len(u.Where) : ~ConditionValid(u.Where[i])
         THEN Fail("Invalid condition")
    ELSE Ok(MarshalStruct(<<
            Field("op", JStr(OpUpdate)),
            Field("table", JStr(u.Table)),
            Field("where", MarshalConditions(u.Where)),
            Field("row", MarshalRow(u.Row))>>))

\* MutateOperation.MarshalJSON
MutateMarshalJSON(mutate) ==
    IF Len(mutate.Table) = 0 THEN Fail("Table field is required")
    ELSE IF Len(mutate.Where) = 0 THEN Fail("Where field is required")
    ELSE IF Len(mutate.Mutations) = 0 THEN Fail("Mutations field is required")
    ELSE IF \E i \in 1..Len(mutate.Where) : ~ConditionValid(mutate.Where[i])
         THEN Fail("Invalid condition")
    ELSE IF \E i \in 1..Len(mutate.Mutations) : ~MutationValid(mutate.Mutations[i])
         THEN Fail("Invalid mutation")
    ELSE Ok(MarshalStruct(<<
            Field("op", JStr(OpMutate)),
            Field("table", JStr(mutate.Table)),
            Field("where", MarshalConditions(mutate.Where)),
            Field("mutations", MarshalMutations(mutate.Mutations))>>))

\* json.Marshal of an Operation: the MarshalJSON of its concrete type.
MarshalOperation(op) ==
    CASE op.op = OpInsert -> InsertMarshalJSON(op)
      [] op.op = OpSelect -> SelectMarshalJSON(op)
      [] op.op = OpUpdate -> UpdateMarshalJSON(op)
      [] op.op = OpMutate -> MutateMarshalJSON(op)

---------------------------------------------------------------------------
(* The operations json.Marshal is applied to *)

SeqsUpTo(S, n) == UNION {[1..k -> S] : k \in 0..n}

Tables == {"", "T"}
Rows == {NilRow, MkRow(<<>>), MkRow([c \in {"c"} |-> GoString("v")]),
         MkRow([c \in {"c", "d"} |-> IF c = "c" THEN GoString("v") ELSE GoInt(1)])}
Conditions == {[Column |-> "c", Function |-> FuncEq, Value |-> GoString("v")],
               [Column |-> "d", Function |-> FuncInc, Value |-> GoInt(1)],
               [Column |-> "c", Function |-> "invalid function", Value |-> GoString("v")]}
Mutations == {[Column |-> "c", Mutator |-> MutatorPluEq, Value |-> GoInt(1)],
              [Column |-> "d", Mutator |-> MutatorInsert, Value |-> GoString("v")],
              [Column |-> "c", Mutator |-> "invalid", Value |-> GoInt(1)]}

InsertOperations ==
    [op : {OpInsert}, Table : Tables, Row : Rows, UUIDName : {"", "n"}]
SelectOperations ==
    [op : {OpSelect}, Table : Tables, Where : SeqsUpTo(Conditions, MaxWhere),
     Columns : {<<>>, <<"c">>, <<"c", "d">>}]
UpdateOperations ==
    [op : {OpUpdate}, Table : Tables, Where : SeqsUpTo(Conditions, MaxWhere),
     Row : Rows]
MutateOperations ==
    [op : {OpMutate}, Table : Tables, Where : SeqsUpTo(Conditions, MaxWhere),
     Mutations : SeqsUpTo(Mutations, MaxMutations)]

NoOp == [op |-> "none"]
NoOut == [err |-> "", bytes |-> NoBytes]

MarshalInsert ==
    /\ opIn = NoOp
    /\ \E o \in InsertOperations :
          /\ opIn' = o
          /\ opOut' = InsertMarshalJSON(o)
    /\ UNCHANGED <<txVars, sessVars>>

MarshalSelect ==
    /\ opIn = NoOp
    /\ \E o \in SelectOperations :
          /\ opIn' = o
          /\ opOut' = SelectMarshalJSON(o)
    /\ UNCHANGED <<txVars, sessVars>>

MarshalUpdate ==
    /\ opIn = NoOp
    /\ \E o \in UpdateOperations :
          /\ opIn' = o
          /\ opOut' = UpdateMarshalJSON(o)
    /\ UNCHANGED <<txVars, sessVars>>

MarshalMutate ==
    /\ opIn = NoOp
    /\ \E o \in MutateOperations :
          /\ opIn' = o
          /\ opOut' = MutateMarshalJSON(o)
    /\ UNCHANGED <<txVars, sessVars>>

\* The caller drops the result; the next json.Marshal starts afresh.
MarshalReturn ==
    /\ opIn # NoOp
    /\ opIn' = NoOp
    /\ opOut' = NoOut
    /\ UNCHANGED <<txVars, sessVars>>

---------------------------------------------------------------------------
(* Client.Transact and TransactResult.UnmarshalJSON: src/unnamed/part_006 *)

NoReply == [t |-> "none"]
EmptyResult == [Results |-> <<>>, Errors |-> <<>>]

\* Entries of TransactResult.Results.  An *Error is identified by the reply
\* position whose branch allocated it, so that the entry of Results and the
\* entry of Errors can be told to be the same pointer.
NilResult == [k |-> "nil"]
ErrorResult(at, err, details) ==
    [k |-> "Error", at |-> at, Err |-> err, Details |-> details]
RawResult(raw) == [k |-> "raw", raw |-> raw]

\* temp, a map[string]interface{}: nil, or a function from keys to values.
NilMap == [isNil |-> TRUE, m |-> <<>>]

ObjKeys(o) == {o.v[i][1] : i \in 1..Len(o.v)}
ObjGet(o, key) ==
    LET i == CHOOSE i \in 1..Len(o.v) :
                /\ o.v[i][1] = key
                /\ \A j \in (i+1)..Len(o.v) : o.v[j][1] # key
    IN o.v[i][2]

\* json.Unmarshal(raw, &temp): null sets the map to nil; an object is
\* decoded into the map temp already holds (a new one only when temp is
\* nil), so the members of earlier objects stay; anything else is an error.
UnmarshalIntoMap(temp, raw) ==
    IF raw.t = "null" THEN [err |-> FALSE, temp |-> NilMap]
    ELSE IF raw.t # "obj" THEN [err |-> TRUE, temp |-> temp]
    ELSE [err |-> FALSE,
          temp |-> [isNil |-> FALSE,
                    m |-> [key \in (DOMAIN temp.m) \cup ObjKeys(raw) |->
                             IF key \in ObjKeys(raw) THEN ObjGet(raw, key)
                             ELSE temp.m[key]]]]

\* x.(string) on temp[key]: it panics when the key is absent (a nil
\* interface) or the value is not a string.
IsString(temp, key) == key \in DOMAIN temp.m /\ temp.m[key].t = "str"

DecodeElementDropNil(acc, i, raw) ==
    LET u == UnmarshalIntoMap(acc.temp, raw) IN
    IF u.err THEN [acc EXCEPT !.st = "error"]
    ELSE IF u.temp.isNil THEN [acc EXCEPT !.temp = u.temp]
    ELSE IF "error" \in DOMAIN u.temp.m THEN
        IF ~IsString(u.temp, "error") \/ ~IsString(u.temp, "details")
        THEN [acc EXCEPT !.st = "panic", !.temp = u.temp]
        ELSE LET opError == ErrorResult(i, u.temp.m["error"].v, u.temp.m["details"].v)
             IN [acc EXCEPT !.temp = u.temp,
                            !.Errors = Append(@, opError),
                            !.Results = Append(@, opError)]
    ELSE [acc EXCEPT !.temp = u.temp, !.Results = Append(@, RawResult(raw))]

DecodeElementForgetErrors(acc, i, raw) ==
    LET u == UnmarshalIntoMap(acc.temp, raw) IN
    IF u.err THEN [acc EXCEPT !.st = "error"]
    ELSE IF u.temp.isNil
         THEN [acc EXCEPT !.temp = u.temp, !.Results = Append(@, NilResult)]
    ELSE IF "error" \in DOMAIN u.temp.m THEN
        IF ~IsString(u.temp, "error") \/ ~IsString(u.temp, "details")
        THEN [acc EXCEPT !.st = "panic", !.temp = u.temp]
        ELSE LET opError == ErrorResult(i, u.temp.m["error"].v, u.temp.m["details"].v)
             IN [acc EXCEPT !.temp = u.temp,
                            !.Results = Append(@, opError)]
    ELSE [acc EXCEPT !.temp = u.temp, !.Results = Append(@, RawResult(raw))]

\* One turn of the loop of TransactResult.UnmarshalJSON over raws[i].
DecodeElement(acc, i, raw) ==
    LET u == UnmarshalIntoMap(acc.temp, raw) IN
    IF u.err THEN [acc EXCEPT !.st = "error"]
    ELSE IF u.temp.isNil
         THEN [acc EXCEPT !.temp = u.temp, !.Results = Append(@, NilResult)]
    ELSE IF "error" \in DOMAIN u.temp.m THEN
        IF ~IsString(u.temp, "error") \/ ~IsString(u.temp, "details")
        THEN [acc EXCEPT !.st = "panic", !.temp = u.temp]
        ELSE LET opError == ErrorResult(i, u.temp.m["error"].v, u.temp.m["details"].v)
             IN [acc EXCEPT !.temp = u.temp,
                            !.Errors = Append(@, opError),
                            !.Results = Append(@, opError)]
    ELSE [acc EXCEPT !.temp = u.temp, !.Results = Append(@, RawResult(raw))]

RECURSIVE DecodeLoop(_, _, _)
DecodeLoop(raws, i, acc) ==
    IF i > Len(raws) \/ acc.st # "ok" THEN acc
    ELSE DecodeLoop(raws, i + 1, DecodeElement(acc, i, raws[i]))

\* TransactResult.UnmarshalJSON on a fresh TransactResult: st is "ok" (nil
\* returned), "error" (an error returned) or "panic" (a failed type
\* assertion); Results and Errors are what tr holds at that point.
TransactResultUnmarshalJSON(value) ==
    LET start == [st |-> "ok", Results |-> <<>>, Errors |-> <<>>, temp |-> NilMap] IN
    IF value.t = "null" THEN start
    ELSE IF value.t # "arr" THEN [start EXCEPT !.st = "error"]
    ELSE DecodeLoop(value.v, 1, start)

WriteRequestStreaming(params) ==
    LET outs == [i \in 1..Len(params) |-> MarshalOperation(params[i])]
        n == IF \E i \in 1..Len(outs) : outs[i].err # ""
             THEN (CHOOSE i \in 1..Len(outs) :
                      /\ outs[i].err # ""
                      /\ \A j \in 1..(i-1) : outs[j].err = "") - 1
             ELSE Len(outs)
    IN [err |-> IF n < Len(outs) THEN outs[n + 1].err ELSE "",
        written |-> <<[method |-> "transact",
                       params |-> [i \in 1..n |-> outs[i].bytes]]>>]

\* c.rpc.Call up to the write of the request: the codec marshals the whole
\* request (every Operation through its MarshalJSON) before it writes; a
\* marshal error is returned and nothing is written.
WriteRequest(params) ==
    LET outs == [i \in 1..Len(params) |-> MarshalOperation(params[i])] IN
    IF \E i \in 1..Len(outs) : outs[i].err # ""
    THEN [err |-> outs[CHOOSE i \in 1..Len(outs) :
                          /\ outs[i].err # ""
                          /\ \A j \in 1..(i-1) : outs[j].err = ""].err,
          written |-> <<>>]
    ELSE [err |-> "",
          written |-> <<[method |-> "transact",
                         params |-> [i \in 1..Len(outs) |-> outs[i].bytes]]>>]

\* The operations callers pass to Transact.
TransactOperations ==
    {[op |-> OpInsert, Table |-> "T", Row |-> MkRow(<<>>), UUIDName |-> ""],
     [op |-> OpInsert, Table |-> "", Row |-> MkRow(<<>>), UUIDName |-> ""],
     [op |-> OpMutate, Table |-> "T",
      Where |-> <<[Column |-> "c", Function |-> FuncEq, Value |-> GoString("v")]>>,
      Mutations |-> <<[Column |-> "c", Mutator |-> MutatorPluEq, Value |-> GoInt(1)]>>],
     [op |-> OpMutate, Table |-> "T",
      Where |-> <<[Column |-> "c", Function |-> FuncEq, Value |-> GoString("v")]>>,
      Mutations |-> <<[Column |-> "c", Mutator |-> "invalid", Value |-> GoInt(1)]>>],
     [op |-> OpSelect, Table |-> "T",
      Where |-> <<[Column |-> "c", Function |-> "invalid function", Value |-> GoString("v")]>>,
      Columns |-> <<>>]}

\* The elements a server may put in the result array of a transact reply.
ReplyElements ==
    {JNull,
     JObj(<< <<"count", JNum(1)>> >>),
     JObj(<< <<"rows", JArr(<<>>)>> >>),
     JObj(<< <<"error", JStr("e1")>>, <<"details", JStr("d1")>> >>),
     JObj(<< <<"error", JStr("e2")>> >>),
     JObj(<< <<"error", JNum(5)>>, <<"details", JStr("d3")>> >>),
     JNum(7)}

Replies ==
    {JArr(r) : r \in SeqsUpTo(ReplyElements, MaxReply)} \cup {JStr("x")}

\* Client.Transact up to the point where the request is on the wire.
TransactCall ==
    /\ txPc = "idle"
    /\ \E ops \in SeqsUpTo(TransactOperations, MaxOps) :
          /\ txOps' = ops
          /\ IF Len(ops) = 0
             THEN /\ txPc' = "returned"
                  /\ txResult' = EmptyResult
                  /\ txErr' = ""
                  /\ wire' = wire
             ELSE LET w == WriteRequest(ops) IN
                  /\ wire' = wire \o w.written
                  /\ txResult' = EmptyResult
                  /\ txErr' = w.err
                  /\ txPc' = IF w.err = "" THEN "sent" ELSE "returned"
    /\ txReply' = NoReply
    /\ UNCHANGED <<opVars, sessVars>>

\* The reply arrives; rpc2 decodes its body into &result and Call returns.
TransactReply ==
    /\ txPc = "sent"
    /\ \E reply \in Replies :
          LET d == TransactResultUnmarshalJSON(reply) IN
          /\ txReply' = reply
          /\ txResult' = [Results |-> d.Results, Errors |-> d.Errors]
          /\ txErr' = IF d.st = "error" THEN "reading body" ELSE ""
          /\ txPc' = IF d.st = "panic" THEN "panicked" ELSE "returned"
    /\ UNCHANGED <<txOps, wire, opVars, sessVars>>

\* The call fails without a result: the server answers with a JSON-RPC
\* error, or the connection shuts down.
TransactCallFails ==
    /\ txPc = "sent"
    /\ \E e \in {"server error", "connection is shut down"} : txErr' = e
    /\ txPc' = "returned"
    /\ UNCHANGED <<txOps, wire, txReply, txResult, opVars, sessVars>>

\* The caller has its answer and may call Transact again.
TransactReturn ==
    /\ txPc = "returned"
    /\ txPc' = "idle"
    /\ txOps' = <<>>
    /\ wire' = <<>>
    /\ txReply' = NoReply
    /\ txResult' = EmptyResult
    /\ txErr' = ""
    /\ UNCHANGED <<opVars, sessVars>>

---------------------------------------------------------------------------
(* Dial, SetNotificationHandler and the notification handlers:             *)
(* src/unnamed/part_006 and src/unnamed/part_001                           *)

\* The *rpc2.Client pointers rpc2.NewClientWithCodec may return.
RpcClients == 1..MaxSessions

\* &defaultNotificationHandler, the handlers callers pass to
\* SetNotificationHandler, and the nil NotificationHandler.
DefaultHandler == "defaultNotificationHandler"
UserHandlers == {"h1"}
NilHandler == "nil"

NilClientsMap == <<>>
IdleHandler == [pc |-> "idle", method |-> "", params |-> <<>>, arg |-> JNull,
                client |-> 0, overtaken |-> FALSE]
NoDelivery == [conn |-> 0, method |-> "", params |-> <<>>, client |-> 0,
               handler |-> "", called |-> "none", arg |-> JNull, err |-> ""]

\* A panic in any goroutine ends the process.
Alive == \A p \in RpcClients : disp[p].pc # "panicked"

\* clientsMap[client.rpc] = client
MapInsert(map, key, client) ==
    [x \in (DOMAIN map) \cup {key} |-> IF x = key THEN client ELSE map[x]]

MapLookupNewest(map, key) ==
    IF DOMAIN map = {} THEN [ok |-> FALSE, client |-> 0]
    ELSE [ok |-> TRUE,
          client |-> CHOOSE c \in {map[x] : x \in DOMAIN map} :
                        \A x \in DOMAIN map : map[x] <= c]

\* ovsClient, ok := clientsMap[client]
MapLookup(map, key) ==
    IF key \in DOMAIN map THEN [ok |-> TRUE, client |-> map[key]]
    ELSE [ok |-> FALSE, client |-> 0]

UsedRpcClients == {sess[c].rpc : c \in 1..Len(sess)}

\* rpc2.NewClientWithCodec returns a pointer no live Client holds.  The code
\* only compares these pointers, so one injective allocation stands for all:
\* the highest pointer not in use (the pointer differs from the client id).
NewRpcClient ==
    CHOOSE r \in RpcClients \ UsedRpcClients :
        \A x \in RpcClients \ UsedRpcClients : x <= r

\* Dial up to the construction of the Client: the address is split, the
\* connection is dialled, and a Client with a new rpc2.Client and the
\* default handler is made.  An unknown protocol or a failed dial returns
\* an error and changes nothing.  written holds every value stored into the
\* handler field so far, the one of the Client literal first; schemas is the
\* empty map that make returns.
DialConnect ==
    /\ Alive
    /\ Len(sess) < MaxSessions
    /\ \E proto \in {"tcp", "unix", "udp"}, dialed \in BOOLEAN :
          IF proto \notin {"tcp", "unix"} \/ ~dialed
          THEN sess' = sess
          ELSE sess' = Append(sess, [pc |-> "created", rpc |-> NewRpcClient,
                                     schemas |-> <<>>,
                                     handler |-> DefaultHandler,
                                     written |-> {DefaultHandler}])
    /\ UNCHANGED <<clientsMap, clientsLock, disp, delivered, opVars, txVars>>

\* clientsLock.Lock()
DialLock ==
    \E c \in 1..Len(sess) :
        /\ Alive
        /\ sess[c].pc = "created"
        /\ ~clientsLock.writer /\ clientsLock.readers = 0
        /\ clientsLock' = [clientsLock EXCEPT !.writer = TRUE]
        /\ sess' = [sess EXCEPT ![c].pc = "locked"]
        /\ UNCHANGED <<clientsMap, disp, delivered, opVars, txVars>>

\* The map is made if nil, the client is inserted, clientsLock.Unlock()
DialInsert ==
    \E c \in 1..Len(sess) :
        /\ Alive
        /\ sess[c].pc = "locked"
        /\ clientsMap' = MapInsert(clientsMap, sess[c].rpc, c)
        /\ clientsLock' = [clientsLock EXCEPT !.writer = FALSE]
        /\ sess' = [sess EXCEPT ![c].pc = "registered"]
        /\ UNCHANGED <<disp, delivered, opVars, txVars>>

\* The four rpc.Handle calls and go client.rpc.Run(); Dial returns the client.
DialRun ==
    \E c \in 1..Len(sess) :
        /\ Alive
        /\ sess[c].pc = "registered"
        /\ sess' = [sess EXCEPT ![c].pc = "running"]
        /\ UNCHANGED <<clientsMap, clientsLock, disp, delivered, opVars, txVars>>

\* The transport closes and client.rpc.Run(), started by Dial, returns: the
\* goroutine ends, and no code runs for the Client after that.
ConnClose ==
    \E c \in 1..Len(sess) :
        /\ Alive
        /\ sess[c].pc = "running"
        /\ sess' = [sess EXCEPT ![c].pc = "closed"]
        /\ UNCHANGED <<clientsMap, clientsLock, disp, delivered, opVars, txVars>>

\* A DatabaseSchema as get_schema decodes it (the tables are left out).
DatabaseSchema(name, version) ==
    [k |-> "DatabaseSchema", Name |-> name, Version |-> version]

\* Client.GetSchema(db): the call fails (always, once the connection has
\* shut down) and nil and the error are returned, or the reply is decoded
\* into a new DatabaseSchema whose address is returned.
GetSchema ==
    /\ opIn = NoOp
    /\ \E c \in 1..Len(sess), db \in {"db1", "db2"} :
          /\ sess[c].pc \in {"running", "closed"}
          /\ opIn' = [op |-> "GetSchema", client |-> c, db |-> db]
          /\ \/ \E e \in {"connection is shut down", "unknown database"} :
                    opOut' = [err |-> e, target |-> [k |-> "nil"]]
             \/ /\ sess[c].pc = "running"
                /\ \E version \in {"1.0.0", "2.0.0"} :
                      opOut' = [err |-> "", target |-> DatabaseSchema(db, version)]
    /\ UNCHANGED <<txVars, sessVars>>

\* Client.SetNotificationHandler: a plain store, whatever dispatch is doing.
\* overtaken is history: it marks the notifications of the Client's
\* connection that were dispatched before this call and are still in flight.
SetNotificationHandler ==
    \E c \in 1..Len(sess) :
        /\ Alive
        /\ sess[c].pc = "running"
        /\ \E h \in UserHandlers \cup {NilHandler} :
              sess' = [sess EXCEPT ![c].handler = h, ![c].written = @ \cup {h}]
        /\ disp' = [p \in RpcClients |->
                      IF p = sess[c].rpc /\ disp[p].pc # "idle"
                      THEN [disp[p] EXCEPT !.overtaken = TRUE]
                      ELSE disp[p]]
        /\ UNCHANGED <<clientsMap, clientsLock, delivered, opVars, txVars>>

\* The notifications a server may send.
Notifications ==
    {[method |-> "update", params |-> <<JStr("mon"), JObj(<<>>)>>],
     [method |-> "update", params |-> <<JStr("mon")>>],
     [method |-> "update", params |-> <<JStr("mon"), JStr("x")>>],
     [method |-> "locked", params |-> <<JStr("lockA")>>],
     [method |-> "locked", params |-> <<JNum(5)>>],
     [method |-> "locked", params |-> <<>>],
     [method |-> "stolen", params |-> <<JStr("lockA")>>],
     [method |-> "stolen", params |-> <<JNum(5)>>],
     [method |-> "stolen", params |-> <<JStr("lockA"), JStr("lockB")>>]}

ParamsErrorCountOnly(n) ==
    IF n.method = "update"
    THEN IF Len(n.params) # 2
         THEN "invalid update notification: wrong number of parameters"
         ELSE IF n.params[2].t \notin {"obj", "null"}
         THEN "failed to decode <table-updates>"
         ELSE ""
    ELSE IF Len(n.params) # 1
         THEN "invalid " \o n.method \o " notification: wrong number of parameters"
         ELSE ""

\* The checks updateHandler, lockedHandler and stolenHandler make before
\* they take the lock: "" when the parameters pass, or the error returned.
\* <table-updates> decodes into a map from an object or null only.
ParamsError(n) ==
    IF n.method = "update"
    THEN IF Len(n.params) # 2
         THEN "invalid update notification: wrong number of parameters"
         ELSE IF n.params[2].t \notin {"obj", "null"}
         THEN "failed to decode <table-updates>"
         ELSE ""
    ELSE IF Len(n.params) # 1
         THEN "invalid " \o n.method \o " notification: wrong number of parameters"
         ELSE IF n.params[1].t # "str"
         THEN "invalid " \o n.method \o " notification: wrong lock name"
         ELSE ""

\* The argument handed to the handler method: the lock name, or the
\* <json-value> of an update.
HandlerArg(n) == n.params[1]

\* The NotificationHandler method a notification method maps to.
HandlerMethod(method) ==
    CASE method = "update" -> "Update"
      [] method = "locked" -> "Locked"
      [] method = "stolen" -> "Stolen"

LiveRpcClients == {sess[c].rpc : c \in {c \in 1..Len(sess) : sess[c].pc = "running"}}

\* A notification whose parameters fail the handler's checks: the handler
\* returns the error and touches neither the lock nor the map.
HandlerReject ==
    \E p \in RpcClients :
        /\ Alive
        /\ p \in LiveRpcClients
        /\ disp[p].pc = "idle"
        /\ \E n \in Notifications :
              /\ ParamsError(n) # ""
              /\ delivered' = [NoDelivery EXCEPT !.conn = p, !.method = n.method,
                                                 !.params = n.params,
                                                 !.err = ParamsError(n)]
        /\ UNCHANGED <<sess, clientsMap, clientsLock, disp, opVars, txVars>>

\* A notification whose parameters pass: the handler goes on to
\* clientsLock.RLock().
HandlerRLock ==
    \E p \in RpcClients :
        /\ Alive
        /\ p \in LiveRpcClients
        /\ disp[p].pc = "idle"
        /\ ~clientsLock.writer
        /\ \E n \in Notifications :
              /\ ParamsError(n) = ""
              /\ disp' = [disp EXCEPT ![p] = [pc |-> "rlocked", method |-> n.method,
                                              params |-> n.params,
                                              arg |-> HandlerArg(n), client |-> 0,
                                              overtaken |-> FALSE]]
        /\ clientsLock' = [clientsLock EXCEPT !.readers = @ + 1]
        /\ UNCHANGED <<sess, clientsMap, delivered, opVars, txVars>>

HandlerLookupKeepLock ==
    \E p \in RpcClients :
        /\ Alive
        /\ disp[p].pc = "rlocked"
        /\ LET found == MapLookup(clientsMap, p) IN
              IF found.ok
              THEN /\ disp' = [disp EXCEPT ![p].pc = "found", ![p].client = found.client]
                   /\ delivered' = delivered
              ELSE /\ disp' = [disp EXCEPT ![p] = IdleHandler]
                   /\ delivered' = [NoDelivery EXCEPT !.conn = p,
                                                      !.method = disp[p].method,
                                                      !.params = disp[p].params]
        /\ UNCHANGED <<sess, clientsMap, clientsLock, opVars, txVars>>

\* ovsClient, ok := clientsMap[client]; clientsLock.RUnlock(); without an
\* entry the handler returns nil.
HandlerLookup ==
    \E p \in RpcClients :
        /\ Alive
        /\ disp[p].pc = "rlocked"
        /\ LET found == MapLookup(clientsMap, p) IN
              IF found.ok
              THEN /\ disp' = [disp EXCEPT ![p].pc = "found", ![p].client = found.client]
                   /\ delivered' = delivered
              ELSE /\ disp' = [disp EXCEPT ![p] = IdleHandler]
                   /\ delivered' = [NoDelivery EXCEPT !.conn = p,
                                                      !.method = disp[p].method,
                                                      !.params = disp[p].params]
        /\ clientsLock' = [clientsLock EXCEPT !.readers = @ - 1]
        /\ UNCHANGED <<sess, clientsMap, opVars, txVars>>

\* return ovsClient.handler.Update(...) (Locked, Stolen): the handler field
\* is read now, with no synchronisation with the stores of Dial's caller
\* (SetNotificationHandler takes no lock), so the read may observe any value
\* stored so far; a method call on a nil interface panics.
HandlerInvoke ==
    \E p \in RpcClients :
        /\ Alive
        /\ disp[p].pc = "found"
        /\ \E h \in sess[disp[p].client].written :
              /\ disp' = [disp EXCEPT ![p] = IF h = NilHandler
                                             THEN [@ EXCEPT !.pc = "panicked"]
                                             ELSE IdleHandler]
              /\ delivered' = [conn |-> p, method |-> disp[p].method,
                               params |-> disp[p].params,
                               client |-> disp[p].client, handler |-> h,
                               called |-> IF h = NilHandler THEN "panic"
                                          ELSE HandlerMethod(disp[p].method),
                               arg |-> disp[p].arg, err |-> ""]
        /\ UNCHANGED <<sess, clientsMap, clientsLock, opVars, txVars>>

---------------------------------------------------------------------------
(* The wire codecs of the OVSDB value types: src/set.go,                   *)
(* src/unnamed/part_004 (Map) and src/types.go (UUID, NamedUUID).          *)
(* A codec call is recorded in opIn (the method, its argument and, for a   *)
(* decoder, the target as it was before the call) and its outcome in       *)
(* opOut; for a decoder bytes holds the target after the call.             *)

JBool(b) == [t |-> "bool", v |-> b]

\* A Go slice: the nil slice and the empty slice both have length 0.
NilSlice == [isNil |-> TRUE, e |-> <<>>]
Slice(seq) == [isNil |-> FALSE, e |-> seq]
append(s, x) == Slice(Append(s.e, x))

GoNil == [k |-> "nil"]
GoFloat64(n) == [k |-> "float64", n |-> n]
GoInterfaces(seq) == [k |-> "[]interface{}", e |-> seq]
UUID(s) == [k |-> "UUID", s |-> s]
NamedUUID(s) == [k |-> "NamedUUID", s |-> s]
Set(values) == [k |-> "Set", Values |-> values]
Map(values) == [k |-> "Map", Values |-> values]
StringSet(values) == [k |-> "StringSet", Values |-> values]

setMagic == "set"
mapMagic == "map"
uuidMagic == "uuid"
namedUUIDMagic == "named-uuid"
uuidLen == 36

errNotSet == "Not an OVSDB set"
errNotStringSet == "Not a StringSet"
errNotMap == "Not an OVSDB map"
errNotUUID == "Not an OVSDB UUID"
errNotNamedUUID == "Not an OVSDB NamedUUID"
\* What encoding/json itself reports when a JSON value does not fit the
\* Go type it is decoded into.
errUnmarshalType == "json: cannot unmarshal"

\* json.Unmarshal into an interface{}: strings, float64 numbers, bools, nil,
\* []interface{} (never the nil slice) and map[string]interface{}.
RECURSIVE UnmarshalInterface(_)
UnmarshalInterface(j) ==
    CASE j.t = "null" -> GoNil
      [] j.t = "str" -> GoString(j.v)
      [] j.t = "num" -> GoFloat64(j.v)
      [] j.t = "bool" -> [k |-> "bool", b |-> j.v]
      [] j.t = "arr" ->
            GoInterfaces([i \in 1..Len(j.v) |-> UnmarshalInterface(j.v[i])])
      [] j.t = "obj" ->
            [k |-> "map[string]interface{}",
             m |-> [i \in 1..Len(j.v) |->
                      <<j.v[i][1], UnmarshalInterface(j.v[i][2])>>]]

\* json.Unmarshal of a JSON array into a [2]interface{}: elements beyond the
\* second are discarded, and missing ones keep the zero value nil.
UnmarshalPair(j) ==
    [i \in 1..2 |-> IF i <= Len(j.v) THEN UnmarshalInterface(j.v[i]) ELSE GoNil]

\* json.Unmarshal into a []string: [err, v].  null gives the nil slice, a
\* null element leaves the empty string, and any other mismatch is reported
\* after the rest of the array has been decoded.
UnmarshalStrings(j) ==
    IF j.t = "null" THEN [err |-> "", v |-> <<>>]
    ELSE IF j.t # "arr" THEN [err |-> errUnmarshalType, v |-> <<>>]
    ELSE [err |-> IF \E i \in 1..Len(j.v) : j.v[i].t \notin {"str", "null"}
                  THEN errUnmarshalType ELSE "",
          v |-> [i \in 1..Len(j.v) |->
                    IF j.v[i].t = "str" THEN j.v[i].v ELSE ""]]

UUIDMarshalJSON(uuid) == JArr(<<JStr(uuidMagic), JStr(uuid.s)>>)
NamedUUIDMarshalJSON(nu) == JArr(<<JStr(namedUUIDMagic), JStr(nu.s)>>)

\* json.Marshal of a value held in an interface{}: a Marshaler is encoded by
\* its MarshalJSON, the nil slice as null.
RECURSIVE MarshalInterface(_), SetMarshalJSON(_), MapMarshalJSON(_)
MarshalInterface(x) ==
    CASE x.k \in {"string", "int"} -> MarshalValue(x)
      [] x.k = "nil" -> JNull
      [] x.k = "bool" -> JBool(x.b)
      [] x.k = "float64" -> JNum(x.n)
      [] x.k = "[]interface{}" ->
            JArr([i \in 1..Len(x.e) |-> MarshalInterface(x.e[i])])
      [] x.k = "map[string]interface{}" ->
            JObj([i \in 1..Len(x.m) |->
                    <<x.m[i][1], MarshalInterface(x.m[i][2])>>])
      [] x.k = "UUID" -> UUIDMarshalJSON(x)
      [] x.k = "NamedUUID" -> NamedUUIDMarshalJSON(x)
      [] x.k = "Set" -> SetMarshalJSON(x)
      [] x.k = "Map" -> MapMarshalJSON(x)

\* json.Marshal of a []Value or []string field.
MarshalSlice(values) ==
    IF values.isNil THEN JNull
    ELSE JArr([i \in 1..Len(values.e) |-> MarshalInterface(values.e[i])])

\* Set.MarshalJSON
SetMarshalJSON(s) ==
    IF Len(s.Values.e) = 1 THEN MarshalInterface(s.Values.e[1])
    ELSE JArr(<<JStr(setMagic), MarshalSlice(s.Values)>>)

\* json.Marshal of a []MapPair: each [2]Atomic is a 2-element array.
MarshalPairs(values) ==
    IF values.isNil THEN JNull
    ELSE JArr([i \in 1..Len(values.e) |->
                 JArr(<<MarshalInterface(values.e[i][1]),
                        MarshalInterface(values.e[i][2])>>)])

\* Map.MarshalJSON
MapMarshalJSON(m) == JArr(<<JStr(mapMagic), MarshalPairs(m.Values)>>)

\* append(values, more...) element by element.
RECURSIVE AppendAll(_, _)
AppendAll(values, more) ==
    IF more = <<>> THEN values
    ELSE AppendAll(append(values, Head(more)), Tail(more))

\* What a decoder returns: the error ("" is nil) and the target after it.
Decoded(err, target) == [err |-> err, target |-> target]

\* Set.UnmarshalJSON on the target s.
SetUnmarshalJSON(s, value) ==
    IF value.t # "arr"
    THEN Decoded("", Set(append(s.Values, UnmarshalInterface(value))))
    ELSE LET ovsSet == UnmarshalPair(value)
         IN IF ovsSet[1].k # "string" \/ ovsSet[1].s # setMagic
            THEN Decoded(errNotSet, s)
            ELSE IF ovsSet[2].k # "[]interface{}"
            THEN Decoded(errNotSet, s)
            ELSE Decoded("", Set(AppendAll(s.Values, ovsSet[2].e)))

\* The loop of StringSet.UnmarshalJSON over the decoded elements: it stops
\* at the first element that is not a string, with what it appended so far.
RECURSIVE StringSetLoop(_, _)
StringSetLoop(acc, values) ==
    IF values = <<>> THEN Decoded("", StringSet(acc))
    ELSE IF Head(values).k # "string" THEN Decoded(errNotStringSet, StringSet(acc))
    ELSE StringSetLoop(append(acc, Head(values).s), Tail(values))

\* StringSet.UnmarshalJSON on the target s.
StringSetUnmarshalJSON(s, value) ==
    IF value.t # "arr"
    THEN IF value.t \in {"str", "null"}
         THEN Decoded("", StringSet(Slice(<<IF value.t = "str" THEN value.v ELSE "">>)))
         ELSE Decoded(errUnmarshalType, s)
    ELSE LET ovsSet == UnmarshalPair(value)
         IN IF ovsSet[1].k # "string" \/ ovsSet[1].s # setMagic
            THEN Decoded(errNotSet, s)
            ELSE IF ovsSet[2].k # "[]interface{}"
            THEN Decoded(errNotSet, s)
            ELSE StringSetLoop(Slice([i \in 1..Len(ovsSet[2].e) |-> ""]),
                               ovsSet[2].e)

\* The loop of Map.UnmarshalJSON over the decoded pairs: it stops at the
\* first element that is not a 2-element array, with the pairs appended so far.
RECURSIVE MapLoop(_, _)
MapLoop(acc, values) ==
    IF values = <<>> THEN Decoded("", Map(acc))
    ELSE LET pair == Head(values)
         IN IF pair.k # "[]interface{}" THEN Decoded(errNotMap, Map(acc))
            ELSE IF Len(pair.e) # 2 THEN Decoded(errNotMap, Map(acc))
            ELSE MapLoop(append(acc, <<pair.e[1], pair.e[2]>>), Tail(values))

\* Map.UnmarshalJSON on the target m.
MapUnmarshalJSON(m, value) ==
    IF value.t \notin {"arr", "null"} THEN Decoded(errUnmarshalType, m)
    ELSE LET ovsMap == IF value.t = "null" THEN <<GoNil, GoNil>>
                       ELSE UnmarshalPair(value)
         IN IF ovsMap[1].k # "string" \/ ovsMap[1].s # mapMagic
            THEN Decoded(errNotMap, m)
            ELSE IF ovsMap[2].k # "[]interface{}"
            THEN Decoded(errNotMap, m)
            ELSE MapLoop(m.Values, ovsMap[2].e)

UUIDUnmarshalJSONAnyLength(uuid, value) ==
    LET ovsUUID == UnmarshalStrings(value)
    IN IF ovsUUID.err # "" THEN Decoded(ovsUUID.err, uuid)
       ELSE IF Len(ovsUUID.v) # 2 \/ ovsUUID.v[1] # uuidMagic
       THEN Decoded(errNotUUID, uuid)
       ELSE Decoded("", UUID(ovsUUID.v[2]))

\* UUID.UnmarshalJSON on the target uuid.
UUIDUnmarshalJSON(uuid, value) ==
    LET ovsUUID == UnmarshalStrings(value)
    IN IF ovsUUID.err # "" THEN Decoded(ovsUUID.err, uuid)
       ELSE IF \/ Len(ovsUUID.v) # 2
               \/ ovsUUID.v[1] # uuidMagic
               \/ Len(ovsUUID.v[2]) # uuidLen
       THEN Decoded(errNotUUID, uuid)
       ELSE Decoded("", UUID(ovsUUID.v[2]))

\* NamedUUID.UnmarshalJSON on the target nu.
NamedUUIDUnmarshalJSON(nu, value) ==
    LET ovsNamedUUID == UnmarshalStrings(value)
    IN IF ovsNamedUUID.err # "" THEN Decoded(ovsNamedUUID.err, nu)
       ELSE IF Len(ovsNamedUUID.v) # 2 \/ ovsNamedUUID.v[1] # namedUUIDMagic
       THEN Decoded(errNotUUID, nu)
       ELSE Decoded("", NamedUUID(ovsNamedUUID.v[2]))

(* Inputs of the codec calls *)

\* A well-formed UUID string.
UUIDString == "012345678901234567890123456789012345"

MapPairs == {<<GoString("k"), GoInt(1)>>, <<GoString("k2"), UUID(UUIDString)>>}
Maps == {Map(NilSlice)} \cup
        {Map(Slice(seq)) : seq \in SeqsUpTo(MapPairs, MaxElems)}
SetElements ==
    {GoString("a"), GoInt(1), UUID(UUIDString), NamedUUID("row1"),
     Set(Slice(<<GoString("a"), GoString("b")>>)),
     Map(Slice(<<<<GoString("k"), GoInt(1)>>>>))}
Sets == {Set(NilSlice)} \cup
        {Set(Slice(seq)) : seq \in SeqsUpTo(SetElements, MaxElems)}

\* JSON arrays of up to MaxArity elements.
WireArrays(elements) == {JArr(seq) : seq \in SeqsUpTo(elements, MaxArity)}

SetWires ==
    {SetMarshalJSON(s) : s \in Sets} \cup {JStr("a"), JNum(1)} \cup
    WireArrays({JStr(setMagic), JStr("not"), JNum(1), JArr(<<>>),
                JArr(<<JStr("a")>>), JArr(<<JStr("a"), JNum(1)>>)})

StringSetWires ==
    {JStr("a"), JNum(1)} \cup
    WireArrays({JStr(setMagic), JStr("not"), JArr(<<>>), JArr(<<JStr("a")>>),
                JArr(<<JStr("a"), JStr("b")>>), JArr(<<JStr("a"), JNum(1)>>)})

MapWires ==
    LET WirePair == JArr(<<JStr("k"), JNum(1)>>) IN
    {MapMarshalJSON(m) : m \in Maps} \cup {JStr("a")} \cup
    WireArrays({JStr(mapMagic), JStr(setMagic), JArr(<<>>), JArr(<<WirePair>>),
                JArr(<<WirePair, JArr(<<JStr("k2"), JStr("v")>>)>>),
                JArr(<<WirePair, JStr("bad")>>),
                JArr(<<WirePair, JArr(<<JStr("k2")>>)>>),
                JArr(<<WirePair, JArr(<<JStr("k2"), JStr("v"), JStr("w")>>)>>)})

UUIDWires ==
    {JStr(UUIDString), JNum(1)} \cup
    WireArrays({JStr(uuidMagic), JStr(namedUUIDMagic), JStr(UUIDString),
                JStr("01234567890123456789012345678901234"),
                JStr("0123456789012345678901234567890123456"),
                JStr(""), JNum(1), JNull})

(* The codec calls *)

SetMarshal ==
    /\ opIn = NoOp
    /\ \E s \in Sets :
        /\ opIn' = [op |-> "Set.MarshalJSON", s |-> s]
        /\ opOut' = Ok(SetMarshalJSON(s))
    /\ UNCHANGED <<txVars, sessVars>>

SetUnmarshal ==
    /\ opIn = NoOp
    /\ \E target \in {Set(NilSlice), Set(Slice(<<GoString("old")>>))},
          value \in SetWires :
        /\ opIn' = [op |-> "Set.UnmarshalJSON", target |-> target, value |-> value]
        /\ opOut' = SetUnmarshalJSON(target, value)
    /\ UNCHANGED <<txVars, sessVars>>

StringSetUnmarshal ==
    /\ opIn = NoOp
    /\ \E target \in {StringSet(NilSlice), StringSet(Slice(<<"old">>))},
          value \in StringSetWires :
        /\ opIn' = [op |-> "StringSet.UnmarshalJSON", target |-> target,
                    value |-> value]
        /\ opOut' = StringSetUnmarshalJSON(target, value)
    /\ UNCHANGED <<txVars, sessVars>>

MapMarshal ==
    /\ opIn = NoOp
    /\ \E m \in Maps :
        /\ opIn' = [op |-> "Map.MarshalJSON", m |-> m]
        /\ opOut' = Ok(MapMarshalJSON(m))
    /\ UNCHANGED <<txVars, sessVars>>

MapUnmarshal ==
    /\ opIn = NoOp
    /\ \E target \in {Map(NilSlice), Map(Slice(<<<<GoString("old"), GoInt(0)>>>>))},
          value \in MapWires :
        /\ opIn' = [op |-> "Map.UnmarshalJSON", target |-> target, value |-> value]
        /\ opOut' = MapUnmarshalJSON(target, value)
    /\ UNCHANGED <<txVars, sessVars>>

UUIDUnmarshal ==
    /\ opIn = NoOp
    /\ \E target \in {UUID(""), UUID("old")},
          value \in UUIDWires :
        /\ opIn' = [op |-> "UUID.UnmarshalJSON", target |-> target, value |-> value]
        /\ opOut' = UUIDUnmarshalJSON(target, value)
    /\ UNCHANGED <<txVars, sessVars>>

NamedUUIDUnmarshal ==
    /\ opIn = NoOp
    /\ \E target \in {NamedUUID(""), NamedUUID("old")},
          value \in UUIDWires :
        /\ opIn' = [op |-> "NamedUUID.UnmarshalJSON", target |-> target,
                    value |-> value]
        /\ opOut' = NamedUUIDUnmarshalJSON(target, value)
    /\ UNCHANGED <<txVars, sessVars>>

---------------------------------------------------------------------------
(* The schema types: src/schema.go.  encoding/json decodes a struct from   *)
(* a JSON object member by member, in the order written: a member whose    *)
(* value does not fit a plain field is remembered as the error to return   *)
(* and decoding goes on, an error returned by a field's own UnmarshalJSON  *)
(* ends the decoding at once, null leaves a plain field alone and unknown  *)
(* members are skipped.                                                    *)

\* The state of one struct decode: the struct so far, the error remembered
\* and whether a field's UnmarshalJSON has ended it.
Decoding(v) == [v |-> v, err |-> "", abort |-> FALSE]

\* json.Unmarshal into a bool, int or string field: [ok, v].
PlainField(old, value, t) ==
    IF value.t = t THEN [ok |-> TRUE, v |-> value.v]
    ELSE [ok |-> value.t = "null", v |-> old]

\* The decoding after a plain field has been decoded with outcome f.
StorePlain(d, field, f) ==
    IF f.ok THEN [d EXCEPT !.v[field] = f.v]
    ELSE [d EXCEPT !.err = IF d.err = "" THEN errUnmarshalType ELSE d.err]

\* The decoding after a field's UnmarshalJSON has returned r: the field holds
\* whatever the method left in it.
StoreUnmarshaler(d, field, r) ==
    IF r.err = "" THEN [d EXCEPT !.v[field] = r.target]
    ELSE [d EXCEPT !.v[field] = r.target, !.err = r.err, !.abort = TRUE]

\* What json.Unmarshal into a struct returns at the end of the decoding d.
Finish(d) == Decoded(d.err, d.v)

\* The second branch of the peek rule of the two AtomicOrJSON types, after
\* json.Unmarshal into the JSON field has returned r.
NotAtomic(atomjson, r) ==
    Decoded(r.err, [atomjson EXCEPT !.IsAtomic = FALSE, !.JSON = r.target])

\* The zero values of the schema types; of a JSONBaseType the model keeps
\* the fields Type, Enum and MinInteger.
ZeroAtomicOrJSONBaseType ==
    [IsAtomic |-> FALSE, Atomic |-> "",
     JSON |-> [Type |-> "", Enum |-> Set(NilSlice), MinInteger |-> 0]]
ZeroAtomicOrJSONColumnType ==
    [IsAtomic |-> FALSE, Atomic |-> "",
     JSON |-> [Key |-> ZeroAtomicOrJSONBaseType,
               Value |-> ZeroAtomicOrJSONBaseType,
               Min |-> 0,
               Max |-> [IsInt |-> FALSE, Int |-> 0, Str |-> ""]]]
\* The zero ColumnSchema, which is also what a composite literal that sets
\* neither Ephemeral nor Mutable leaves in them.
ZeroColumnSchema ==
    [Type |-> ZeroAtomicOrJSONColumnType, Ephemeral |-> FALSE, Mutable |-> FALSE]

\* json.Unmarshal into a JSONBaseType, of which the model keeps the fields
\* type, enum and minInteger.
JSONBaseTypeField(d, key, value) ==
    CASE key = "type" -> StorePlain(d, "Type", PlainField(d.v.Type, value, "str"))
      [] key = "enum" -> StoreUnmarshaler(d, "Enum", SetUnmarshalJSON(d.v.Enum, value))
      [] key = "minInteger" ->
            StorePlain(d, "MinInteger", PlainField(d.v.MinInteger, value, "num"))
      [] OTHER -> d

RECURSIVE JSONBaseTypeMembers(_, _)
JSONBaseTypeMembers(d, members) ==
    IF members = <<>> \/ d.abort THEN d
    ELSE JSONBaseTypeMembers(
             JSONBaseTypeField(d, Head(members)[1], Head(members)[2]),
             Tail(members))

UnmarshalJSONBaseType(old, value) ==
    IF value.t = "null" THEN Decoded("", old)
    ELSE IF value.t # "obj" THEN Decoded(errUnmarshalType, old)
    ELSE Finish(JSONBaseTypeMembers(Decoding(old), value.v))

\* AtomicOrJSONBaseType.UnmarshalJSON
AtomicOrJSONBaseTypeUnmarshalJSON(atomjson, value) ==
    IF value.t = "str"
    THEN Decoded("", [atomjson EXCEPT !.IsAtomic = TRUE, !.Atomic = value.v])
    ELSE NotAtomic(atomjson, UnmarshalJSONBaseType(atomjson.JSON, value))

\* The first branch of IntOrString.UnmarshalJSON taken or not, after
\* json.Unmarshal into the Int field has had outcome f.
IsInt(intstr, f) ==
    Decoded(IF f.ok THEN "" ELSE errUnmarshalType,
            [intstr EXCEPT !.IsInt = TRUE, !.Int = f.v])

\* IntOrString.UnmarshalJSON
IntOrStringUnmarshalJSON(intstr, value) ==
    IF value.t = "str"
    THEN Decoded("", [intstr EXCEPT !.IsInt = FALSE, !.Str = value.v])
    ELSE IsInt(intstr, PlainField(intstr.Int, value, "num"))

\* json.Unmarshal into a JSONColumnType.
JSONColumnTypeField(d, key, value) ==
    CASE key = "key" ->
            StoreUnmarshaler(d, "Key", AtomicOrJSONBaseTypeUnmarshalJSON(d.v.Key, value))
      [] key = "value" ->
            StoreUnmarshaler(d, "Value",
                             AtomicOrJSONBaseTypeUnmarshalJSON(d.v.Value, value))
      [] key = "min" -> StorePlain(d, "Min", PlainField(d.v.Min, value, "num"))
      [] key = "max" ->
            StoreUnmarshaler(d, "Max", IntOrStringUnmarshalJSON(d.v.Max, value))
      [] OTHER -> d

RECURSIVE JSONColumnTypeMembers(_, _)
JSONColumnTypeMembers(d, members) ==
    IF members = <<>> \/ d.abort THEN d
    ELSE JSONColumnTypeMembers(
             JSONColumnTypeField(d, Head(members)[1], Head(members)[2]),
             Tail(members))

UnmarshalJSONColumnType(old, value) ==
    IF value.t = "null" THEN Decoded("", old)
    ELSE IF value.t # "obj" THEN Decoded(errUnmarshalType, old)
    ELSE Finish(JSONColumnTypeMembers(Decoding(old), value.v))

\* AtomicOrJSONColumnType.UnmarshalJSON
AtomicOrJSONColumnTypeUnmarshalJSON(atomjson, value) ==
    IF value.t = "str"
    THEN Decoded("", [atomjson EXCEPT !.IsAtomic = TRUE, !.Atomic = value.v])
    ELSE NotAtomic(atomjson, UnmarshalJSONColumnType(atomjson.JSON, value))

\* json.Unmarshal into the aliasColumnSchema of ColumnSchema.UnmarshalJSON.
ColumnSchemaField(d, key, value) ==
    CASE key = "type" ->
            StoreUnmarshaler(d, "Type",
                             AtomicOrJSONColumnTypeUnmarshalJSON(d.v.Type, value))
      [] key = "ephemeral" ->
            StorePlain(d, "Ephemeral", PlainField(d.v.Ephemeral, value, "bool"))
      [] key = "mutable" ->
            StorePlain(d, "Mutable", PlainField(d.v.Mutable, value, "bool"))
      [] OTHER -> d

RECURSIVE ColumnSchemaMembers(_, _)
ColumnSchemaMembers(d, members) ==
    IF members = <<>> \/ d.abort THEN d
    ELSE ColumnSchemaMembers(
             ColumnSchemaField(d, Head(members)[1], Head(members)[2]),
             Tail(members))

UnmarshalAliasColumnSchema(alias, value) ==
    IF value.t = "null" THEN Decoded("", alias)
    ELSE IF value.t # "obj" THEN Decoded(errUnmarshalType, alias)
    ELSE Finish(ColumnSchemaMembers(Decoding(alias), value.v))

ColumnSchemaDefaultZero == ZeroColumnSchema

\* The alias with which ColumnSchema.UnmarshalJSON starts.
ColumnSchemaDefault == [ZeroColumnSchema EXCEPT !.Mutable = TRUE]

\* ColumnSchema.UnmarshalJSON: the error of the decoding is discarded.
ColumnSchemaUnmarshalJSON(cs, value) ==
    Decoded("", UnmarshalAliasColumnSchema(ColumnSchemaDefault, value).target)

(* Inputs of the schema decoding *)

ColumnTypes ==
    {JStr("integer"),
     JObj(<<<<"key", JStr("string")>>>>),
     JObj(<<<<"key", JObj(<<<<"type", JStr("string")>>,
                            <<"enum", JArr(<<JStr(setMagic),
                                             JArr(<<JStr("a"), JStr("b")>>)>>)>>>>)>>,
            <<"min", JNum(0)>>, <<"max", JStr("unlimited")>>>>)}
MalformedColumnTypes ==
    {JNum(5),
     JArr(<<JStr("integer")>>),
     JObj(<<<<"key", JNum(5)>>>>),
     JObj(<<<<"key", JObj(<<<<"enum", JArr(<<JStr(setMagic), JStr("x")>>)>>>>)>>>>)}
ColumnMembers ==
    {<<"type", t>> : t \in ColumnTypes \cup MalformedColumnTypes} \cup
    {<<"mutable", JBool(b)>> : b \in BOOLEAN} \cup
    {<<"ephemeral", JBool(TRUE)>>}
\* JSON objects of up to MaxMembers members with distinct names.
ColumnWires ==
    {JObj(seq) : seq \in {s \in SeqsUpTo(ColumnMembers, MaxMembers) :
                            \A i, j \in 1..Len(s) : s[i][1] = s[j][1] => i = j}}

ColumnSchemaUnmarshal ==
    /\ opIn = NoOp
    /\ \E value \in ColumnWires :
        /\ opIn' = [op |-> "ColumnSchema.UnmarshalJSON",
                    target |-> ZeroColumnSchema, value |-> value]
        /\ opOut' = ColumnSchemaUnmarshalJSON(ZeroColumnSchema, value)
    /\ UNCHANGED <<txVars, sessVars>>

\* A ColumnSchema written as a composite literal that does not set Mutable.
ColumnSchemaLiteral ==
    /\ opIn = NoOp
    /\ \E type \in {ZeroAtomicOrJSONColumnType,
                    [ZeroAtomicOrJSONColumnType EXCEPT !.IsAtomic = TRUE,
                                                       !.Atomic = "integer"]},
          ephemeral \in BOOLEAN :
        /\ opIn' = [op |-> "ColumnSchema{}", Type |-> type, Ephemeral |-> ephemeral]
        /\ opOut' = Decoded("", [ZeroColumnSchema EXCEPT !.Type = type,
                                                         !.Ephemeral = ephemeral])
    /\ UNCHANGED <<txVars, sessVars>>

Init ==
    /\ opIn = NoOp
    /\ opOut = NoOut
    /\ txPc = "idle"
    /\ txOps = <<>>
    /\ wire = <<>>
    /\ txReply = NoReply
    /\ txResult = EmptyResult
    /\ txErr = ""
    /\ sess = <<>>
    /\ clientsMap = NilClientsMap
    /\ clientsLock = [writer |-> FALSE, readers |-> 0]
    /\ disp = [p \in RpcClients |-> IdleHandler]
    /\ delivered = NoDelivery

NextOp ==
    \/ MarshalInsert
    \/ MarshalSelect
    \/ MarshalUpdate
    \/ MarshalMutate
    \/ MarshalReturn

SpecOp == Init /\ [][NextOp]_vars

NextTransact ==
    \/ TransactCall
    \/ TransactReply
    \/ TransactCallFails
    \/ TransactReturn

SpecTransact == Init /\ [][NextTransact]_vars

NextSession ==
    \/ DialConnect
    \/ DialLock
    \/ DialInsert
    \/ DialRun
    \/ SetNotificationHandler
    \/ HandlerReject
    \/ HandlerRLock
    \/ HandlerLookup
    \/ HandlerInvoke

SpecSession == Init /\ [][NextSession]_vars

NextLifetime ==
    \/ DialConnect
    \/ DialLock
    \/ DialInsert
    \/ DialRun
    \/ ConnClose
    \/ GetSchema
    \/ MarshalReturn

SpecLifetime == Init /\ [][NextLifetime]_vars

NextCodec ==
    \/ SetMarshal
    \/ SetUnmarshal
    \/ StringSetUnmarshal
    \/ MapMarshal
    \/ MapUnmarshal
    \/ UUIDUnmarshal
    \/ NamedUUIDUnmarshal
    \/ ColumnSchemaUnmarshal
    \/ ColumnSchemaLiteral
    \/ MarshalReturn

SpecCodec == Init /\ [][NextCodec]_vars

---------------------------------------------------------------------------
(* Claims about the encoding of operations, checked under SpecOp *)

Succeeded == opOut.err = ""
ValueAt(j, key) ==
    LET i == CHOOSE i \in 1..Len(j.v) : j.v[i][1] = key IN j.v[i][2]
AllFunctionsEnumerated(where) ==
    \A i \in 1..Len(where) :
        where[i].Function \in {"<", "<=", "==", "!=", ">=", ">", "includes", "excludes"}
AllMutatorsEnumerated(muts) ==
    \A i \in 1..Len(muts) :
        muts[i].Mutator \in {"+=", "-=", "*=", "/=", "%=", "insert", "delete"}

\* C7: encoding an InsertOperation succeeds exactly when Table is non-empty
\* and Row is non-nil (an empty Row is accepted); on success the keys are
\* op, table, row, then uuid-name only when UUIDName is non-empty; on
\* failure no output is emitted.
C7_InsertEncoding ==
    opIn.op = OpInsert =>
        /\ Succeeded <=> (opIn.Table # "" /\ ~opIn.Row.isNil)
        /\ ~Succeeded => opOut.bytes = NoBytes
        /\ Succeeded =>
            /\ Keys(opOut.bytes) =
                 IF opIn.UUIDName = "" THEN <<"op", "table", "row">>
                 ELSE <<"op", "table", "row", "uuid-name">>
            /\ ValueAt(opOut.bytes, "op") = JStr("insert")
            /\ ValueAt(opOut.bytes, "table") = JStr(opIn.Table)
            /\ ValueAt(opOut.bytes, "row").t = "obj"
            /\ Len(ValueAt(opOut.bytes, "row").v) = Cardinality(DOMAIN opIn.Row.m)
            /\ opIn.UUIDName # "" =>
                 ValueAt(opOut.bytes, "uuid-name") = JStr(opIn.UUIDName)
        /\ (opIn.Table = "T" /\ opIn.Row = MkRow([c \in {"c"} |-> GoString("v")])
              /\ opIn.UUIDName = "") =>
             opOut.bytes = JObj(<< <<"op", JStr("insert")>>, <<"table", JStr("T")>>,
                                   <<"row", JObj(<< <<"c", JStr("v")>> >>)>> >>)

C7_Witness ==
    /\ opIn.op = OpInsert
    /\ Succeeded
    /\ opIn.Row = MkRow(<<>>)
    /\ opIn.UUIDName = "n"
    /\ Len(opOut.bytes.v) = 4

\* C8: encoding a MutateOperation succeeds exactly when Table is non-empty,
\* Where and Mutations are non-empty, every Function and every Mutator is
\* in its enumerated set; on success the keys are op, table, where,
\* mutations; on failure no output is emitted.
C8_MutateEncoding ==
    opIn.op = OpMutate =>
        /\ Succeeded <=>
             /\ opIn.Table # ""
             /\ Len(opIn.Where) >= 1
             /\ Len(opIn.Mutations) >= 1
             /\ AllFunctionsEnumerated(opIn.Where)
             /\ AllMutatorsEnumerated(opIn.Mutations)
        /\ ~Succeeded => opOut.bytes = NoBytes
        /\ Succeeded =>
            /\ Keys(opOut.bytes) = <<"op", "table", "where", "mutations">>
            /\ ValueAt(opOut.bytes, "op") = JStr("mutate")
            /\ ValueAt(opOut.bytes, "table") = JStr(opIn.Table)
            /\ Len(ValueAt(opOut.bytes, "where").v) = Len(opIn.Where)
            /\ Len(ValueAt(opOut.bytes, "mutations").v) = Len(opIn.Mutations)
        /\ (opIn.Table = "T"
              /\ opIn.Where = <<[Column |-> "c", Function |-> "==", Value |-> GoString("v")]>>
              /\ opIn.Mutations = <<[Column |-> "c", Mutator |-> "+=", Value |-> GoInt(1)]>>) =>
             opOut.bytes =
               JObj(<< <<"op", JStr("mutate")>>, <<"table", JStr("T")>>,
                       <<"where", JArr(<<JArr(<<JStr("c"), JStr("=="), JStr("v")>>)>>)>>,
                       <<"mutations", JArr(<<JArr(<<JStr("c"), JStr("+="), JNum(1)>>)>>)>> >>)

C8_Witness ==
    /\ opIn.op = OpMutate
    /\ ~Succeeded
    /\ opIn.Table = "T"
    /\ Len(opIn.Where) = 1 /\ AllFunctionsEnumerated(opIn.Where)
    /\ Len(opIn.Mutations) = 2
    /\ opIn.Mutations[1].Mutator = "+="
    /\ opIn.Mutations[2].Mutator = "invalid"

\* C9: encoding a SelectOperation succeeds exactly when Table is non-empty,
\* Where is non-empty and every Function is in the enumerated set; on
\* success the keys are op, table, where, and columns is present exactly
\* when Columns is non-empty.
C9_SelectEncoding ==
    opIn.op = OpSelect =>
        /\ Succeeded <=>
             /\ opIn.Table # ""
             /\ Len(opIn.Where) >= 1
             /\ AllFunctionsEnumerated(opIn.Where)
        /\ ~Succeeded => opOut.bytes = NoBytes
        /\ Succeeded =>
            /\ SubSeq(Keys(opOut.bytes), 1, 3) = <<"op", "table", "where">>
            /\ Len(opOut.bytes.v) \in {3, 4}
            /\ (\E i \in 1..Len(opOut.bytes.v) : opOut.bytes.v[i][1] = "columns")
                 <=> Len(opIn.Columns) >= 1
            /\ Len(opIn.Columns) >= 1 =>
                 /\ Keys(opOut.bytes)[4] = "columns"
                 /\ Len(ValueAt(opOut.bytes, "columns").v) = Len(opIn.Columns)
            /\ ValueAt(opOut.bytes, "op") = JStr("select")
            /\ Len(ValueAt(opOut.bytes, "where").v) = Len(opIn.Where)

C9_Witness ==
    /\ opIn.op = OpSelect
    /\ Succeeded
    /\ Len(opIn.Columns) = 0
    /\ Len(opOut.bytes.v) = 3

\* C10: encoding an UpdateOperation succeeds exactly when Table is
\* non-empty, Where is non-empty with every Function in the enumerated set,
\* and Row has at least one column (a non-nil empty Row is rejected); on
\* success the keys are op, table, where, row.
C10_UpdateEncoding ==
    opIn.op = OpUpdate =>
        /\ Succeeded <=>
             /\ opIn.Table # ""
             /\ Len(opIn.Where) >= 1
             /\ AllFunctionsEnumerated(opIn.Where)
             /\ ~opIn.Row.isNil
             /\ DOMAIN opIn.Row.m # {}
        /\ ~Succeeded => opOut.bytes = NoBytes
        /\ Succeeded =>
            /\ Keys(opOut.bytes) = <<"op", "table", "where", "row">>
            /\ ValueAt(opOut.bytes, "op") = JStr("update")
            /\ ValueAt(opOut.bytes, "table") = JStr(opIn.Table)
            /\ Len(ValueAt(opOut.bytes, "where").v) = Len(opIn.Where)
            /\ Len(ValueAt(opOut.bytes, "row").v) = Cardinality(DOMAIN opIn.Row.m)

C10_Witness ==
    /\ opIn.op = OpUpdate
    /\ ~Succeeded
    /\ opIn.Table = "T"
    /\ Len(opIn.Where) = 1 /\ AllFunctionsEnumerated(opIn.Where)
    /\ opIn.Row = MkRow(<<>>)
    /\ opOut.err = "Row field is required"

---------------------------------------------------------------------------
(* Claims about Transact and the decoding of its reply, under SpecTransact *)

IsErrorObject(e) == e.t = "obj" /\ "error" \in ObjKeys(e)

\* A reply as RFC 7047 shapes it: an array of nulls and objects, where an
\* error object has a string "error" and, optionally, a string "details".
WellFormedReply(reply) ==
    /\ reply.t = "arr"
    /\ \A i \in 1..Len(reply.v) :
          /\ reply.v[i].t \in {"null", "obj"}
          /\ IsErrorObject(reply.v[i]) =>
                /\ ObjGet(reply.v[i], "error").t = "str"
                /\ "details" \in ObjKeys(reply.v[i]) =>
                      ObjGet(reply.v[i], "details").t = "str"

\* What the element at position i is to become, judged on the element alone.
Classified(i, e) ==
    IF e.t = "null" THEN NilResult
    ELSE IF IsErrorObject(e)
         THEN ErrorResult(i, ObjGet(e, "error").v,
                          IF "details" \in ObjKeys(e) THEN ObjGet(e, "details").v ELSE "")
    ELSE RawResult(e)

OnlyErrors(results) == SelectSeq(results, LAMBDA r : r.k = "Error")

ReturnedOk == txPc = "returned" /\ txErr = ""

\* C1: the reply array is classified left to right, one Results entry per
\* element: null becomes the nil marker, an object with an error key becomes
\* an Error appended to both Results and Errors, any other element is kept
\* as the raw payload; [success, error, null] gives [payload, Error, nil]
\* with Errors holding that same Error.
C1_Classification ==
    (txReply # NoReply /\ WellFormedReply(txReply)) =>
        /\ ReturnedOk
        /\ txResult.Results = [i \in 1..Len(txReply.v) |-> Classified(i, txReply.v[i])]
        /\ txResult.Errors = OnlyErrors(txResult.Results)

\* The 3-element example of C1 alone: [success, error, null].
C1_Example ==
    txReply = JArr(<<JObj(<< <<"count", JNum(1)>> >>),
                     JObj(<< <<"error", JStr("e1")>>, <<"details", JStr("d1")>> >>),
                     JNull>>) =>
        /\ ReturnedOk
        /\ txResult.Results = <<RawResult(JObj(<< <<"count", JNum(1)>> >>)),
                                ErrorResult(2, "e1", "d1"), NilResult>>
        /\ txResult.Errors = <<ErrorResult(2, "e1", "d1")>>

\* C3 as stated: every successful Transact returns exactly one Results entry
\* per submitted Operation.
C3_OneResultPerOperation ==
    ReturnedOk => Len(txResult.Results) = Len(txOps)

\* C3 as amended: every successful Transact returns exactly one Results
\* entry per element of the reply array (none when no operation was passed
\* and so no call was made), whatever the number of operations submitted.
C3_OneResultPerReplyElement ==
    ReturnedOk =>
        IF txReply = NoReply THEN txOps = <<>> /\ txResult.Results = <<>>
        ELSE txReply.t = "arr" /\ Len(txResult.Results) = Len(txReply.v)

C3_Witness ==
    /\ ReturnedOk
    /\ Len(txOps) = 1
    /\ txReply # NoReply /\ txReply.t = "arr"
    /\ Len(txReply.v) = 3
    /\ Len(txResult.Results) = 3
    /\ txResult.Results[3] = NilResult

\* C4 as stated: after the first Error in Results every later position is
\* the nil marker, and Errors never holds more than one Error.
C4_NilAfterFirstError ==
    ReturnedOk =>
        /\ \A i, j \in 1..Len(txResult.Results) :
              (i < j /\ txResult.Results[i].k = "Error") =>
                  txResult.Results[j] = NilResult
        /\ Len(txResult.Errors) <= 1

\* C4 as amended: Errors is exactly the Errors of Results, in order (one per
\* element classified as an error, so possibly several), and a position of
\* Results holds the nil marker exactly when the reply element there is null.
C4_ErrorsMirrorResults ==
    (ReturnedOk /\ txReply # NoReply /\ txReply.t = "arr") =>
        /\ txResult.Errors = OnlyErrors(txResult.Results)
        /\ \A j \in 1..Len(txResult.Results) :
              txResult.Results[j] = NilResult <=> txReply.v[j] = JNull

C4_Witness ==
    /\ ReturnedOk
    /\ Len(txResult.Results) = 3
    /\ txResult.Results[1].k = "Error"
    /\ txResult.Results[2] = NilResult
    /\ txResult.Results[3].k = "Error"
    /\ Len(txResult.Errors) = 2

\* C5: when the reply holds one or more error objects, Transact returns a
\* nil error and a TransactResult with a non-empty Errors, and the elements
\* after the error are decoded too.
C5_RemoteErrorNotRaised ==
    (/\ txReply # NoReply
     /\ WellFormedReply(txReply)
     /\ \E i \in 1..Len(txReply.v) : IsErrorObject(txReply.v[i])) =>
        /\ ReturnedOk
        /\ txResult.Errors # <<>>
        /\ Len(txResult.Results) = Len(txReply.v)

\* An operation with a required field missing or a Function or Mutator
\* outside its enumeration.
OpInvalid(o) ==
    CASE o.op = "insert" -> o.Table = "" \/ o.Row.isNil
      [] o.op = "select" ->
            o.Table = "" \/ o.Where = <<>> \/ ~AllFunctionsEnumerated(o.Where)
      [] o.op = "update" ->
            \/ o.Table = "" \/ o.Where = <<>> \/ ~AllFunctionsEnumerated(o.Where)
            \/ o.Row.isNil \/ DOMAIN o.Row.m = {}
      [] o.op = "mutate" ->
            \/ o.Table = "" \/ o.Where = <<>> \/ ~AllFunctionsEnumerated(o.Where)
            \/ o.Mutations = <<>> \/ ~AllMutatorsEnumerated(o.Mutations)

\* C6: when any operation passed to Transact fails validation, Transact
\* returns an error and no request frame is written to the connection.
C6_InvalidNeverSent ==
    /\ (\E i \in 1..Len(txOps) : OpInvalid(txOps[i])) =>
          /\ wire = <<>>
          /\ txPc = "returned"
          /\ txErr # ""
          /\ txReply = NoReply
    /\ \A f \in 1..Len(wire) :
          /\ Len(wire[f].params) = Len(txOps)
          /\ \A i \in 1..Len(wire[f].params) : wire[f].params[i] # NoBytes

C6_Witness ==
    /\ txPc = "returned"
    /\ Len(txOps) = 2
    /\ ~OpInvalid(txOps[1])
    /\ OpInvalid(txOps[2])
    /\ txErr = "Invalid mutation"
    /\ wire = <<>>

---------------------------------------------------------------------------
(* Claims about sessions and notification dispatch, under SpecSession *)

\* C2: an update notification arriving on a connection invokes Update only
\* on the handler of the Session registered for that connection, whatever
\* Dial calls and notifications on other connections are interleaved with it.
C2_UpdateRouting ==
    /\ \A c1, c2 \in 1..Len(sess) : c1 # c2 => sess[c1].rpc # sess[c2].rpc
    /\ \A p \in RpcClients :
          disp[p].pc = "found" =>
              /\ disp[p].client \in 1..Len(sess)
              /\ sess[disp[p].client].rpc = p
    /\ delivered.called = "Update" =>
          /\ delivered.method = "update"
          /\ delivered.client \in 1..Len(sess)
          /\ sess[delivered.client].rpc = delivered.conn
          /\ \A c \in 1..Len(sess) :
                c # delivered.client => sess[c].rpc # delivered.conn

C2_Witness ==
    /\ Len(sess) = 2
    /\ sess[1].pc = "running" /\ sess[2].pc = "running"
    /\ sess[1].rpc = 2
    /\ sess[1].handler = "h1" /\ sess[2].handler = DefaultHandler
    /\ disp[1].pc = "found"
    /\ delivered.called = "Update"
    /\ delivered.conn = 2
    /\ delivered.client = 1
    /\ delivered.handler = "h1"

---------------------------------------------------------------------------
(* Claims about the wire codecs, checked under SpecCodec *)

\* The elements of a slice encoded one by one, in order.
EncodedElements(values) ==
    [i \in 1..Len(values.e) |-> MarshalInterface(values.e[i])]

\* C11: a Set of exactly one element encodes as the bare encoding of that
\* element; a Set of zero or of two or more elements encodes as the array
\* ["set", [e1, ..., en]] with the elements in order, the second element
\* being an empty array when the Set holds no element.
C11_SetEncoding ==
    opIn.op = "Set.MarshalJSON" =>
        /\ opOut.err = ""
        /\ opOut.bytes =
              IF Len(opIn.s.Values.e) = 1
              THEN MarshalInterface(opIn.s.Values.e[1])
              ELSE JArr(<<JStr("set"), JArr(EncodedElements(opIn.s.Values))>>)

\* Two slices hold the same elements in the same order, an element being
\* identified by its wire encoding.
SameElements(a, b) ==
    /\ Len(a.e) = Len(b.e)
    /\ EncodedElements(a) = EncodedElements(b)

\* C12: decoding the encoding of a Set into a fresh target succeeds and
\* gives back the elements of the Set in order, whether the Set holds zero,
\* one or several elements and whatever values of the Value union they are.
C12_SetRoundTrip ==
    (opIn.op = "Set.UnmarshalJSON" /\ opIn.target = Set(NilSlice)) =>
        \A s \in Sets :
            opIn.value = SetMarshalJSON(s) =>
                /\ opOut.err = ""
                /\ SameElements(opOut.target.Values, s.Values)

\* The array has exactly two elements, the tag and an array.
TaggedArray(value, magic) ==
    /\ Len(value.v) = 2
    /\ value.v[1] = JStr(magic)
    /\ value.v[2].t = "arr"

\* C13: decoding a Set from a JSON array succeeds only for an array of
\* exactly two elements whose first is the string "set" and whose second is
\* an array; an array of any other length, shorter or longer, another tag or
\* a second element that is no array fails with the not-a-set error.
C13_SetShape ==
    (opIn.op = "Set.UnmarshalJSON" /\ opIn.value.t = "arr") =>
        IF TaggedArray(opIn.value, "set") THEN opOut.err = ""
        ELSE opOut.err = errNotSet

Decoders ==
    {"Set.UnmarshalJSON", "StringSet.UnmarshalJSON", "Map.UnmarshalJSON",
     "UUID.UnmarshalJSON", "NamedUUID.UnmarshalJSON"}

\* C14: a decode of a Set, StringSet, Map, UUID or NamedUUID that returns an
\* error leaves the target exactly as it was before the call, also when the
\* offending element comes after well-formed ones.
C14_NoPartialDecode ==
    (opIn.op \in Decoders /\ opOut.err # "") => opOut.target = opIn.target

\* C15: a Map of any number of pairs, zero and one included, encodes as the
\* array ["map", [[k1, v1], ..., [kn, vn]]] with the pairs in order, the
\* second element being an empty array when the Map holds no pair.
C15_MapEncoding ==
    opIn.op = "Map.MarshalJSON" =>
        /\ opOut.err = ""
        /\ opOut.bytes =
              JArr(<<JStr("map"),
                     JArr([i \in 1..Len(opIn.m.Values.e) |->
                             JArr(<<MarshalInterface(opIn.m.Values.e[i][1]),
                                    MarshalInterface(opIn.m.Values.e[i][2])>>)])>>)

\* The wire form of a Map: the tag and an array of 2-element arrays.
WellFormedMap(value) ==
    /\ TaggedArray(value, "map")
    /\ \A i \in 1..Len(value.v[2].v) :
          value.v[2].v[i].t = "arr" /\ Len(value.v[2].v[i].v) = 2

\* C16: decoding a Map from a JSON array succeeds exactly for an array of
\* two elements, the string "map" and an array of 2-element arrays, and then
\* the target holds the pairs in wire order; an array of any other length,
\* another tag, a second element that is no array or an element of it that
\* is no 2-element array fails with the not-a-map error.
C16_MapShape ==
    (opIn.op = "Map.UnmarshalJSON" /\ opIn.value.t = "arr"
        /\ opIn.target = Map(NilSlice)) =>
        IF WellFormedMap(opIn.value)
        THEN /\ opOut.err = ""
             /\ MarshalPairs(Slice(opOut.target.Values.e)) = opIn.value.v[2]
        ELSE opOut.err = errNotMap

\* A JSON array of exactly two strings, the first being the tag.
TaggedString(value, magic) ==
    /\ Len(value.v) = 2
    /\ value.v[1] = JStr(magic)
    /\ value.v[2].t = "str"

\* C17: decoding a UUID from a JSON array succeeds if and only if the array
\* has exactly two string elements, the first "uuid" and the second of
\* length exactly 36; the decoded UUID is then the second element, and for
\* every other array the decode fails and the target is unchanged.
C17_UUIDDecoding ==
    (opIn.op = "UUID.UnmarshalJSON" /\ opIn.value.t = "arr") =>
        IF TaggedString(opIn.value, "uuid") /\ Len(opIn.value.v[2].v) = 36
        THEN opOut.err = "" /\ opOut.target = UUID(opIn.value.v[2].v)
        ELSE opOut.err # "" /\ opOut.target = opIn.target

\* A 36-character UUID has been decoded over a target that held another one.
C17_Witness ==
    /\ opIn.op = "UUID.UnmarshalJSON"
    /\ opIn.target = UUID("old")
    /\ opOut.err = ""
    /\ opOut.target = UUID(UUIDString)

\* C18: decoding a NamedUUID accepts every array of two strings tagged
\* "named-uuid", whatever the name, the empty name included, and rejects an
\* array of strings of another arity or tag with the not-a-named-uuid error,
\* which is not the not-a-uuid error.
C18_NamedUUIDDecoding ==
    (opIn.op = "NamedUUID.UnmarshalJSON" /\ opIn.value.t = "arr"
        /\ \A i \in 1..Len(opIn.value.v) : opIn.value.v[i].t = "str") =>
        IF TaggedString(opIn.value, "named-uuid")
        THEN opOut.err = "" /\ opOut.target = NamedUUID(opIn.value.v[2].v)
        ELSE opOut.err = errNotNamedUUID /\ opOut.err # errNotUUID

\* The members of a JSON object that have the given name.
Members(value, key) == {i \in 1..Len(value.v) : value.v[i][1] = key}

C20_MalformedTypeIsError ==
    (opIn.op = "ColumnSchema.UnmarshalJSON"
        /\ \E i \in Members(opIn.value, "type") :
              opIn.value.v[i][2] \in MalformedColumnTypes) =>
        opOut.err # ""

\* The strings of the second element of the tagged form, in order.
WireStrings(value) ==
    [i \in 1..Len(value.v[2].v) |-> value.v[2].v[i].v]

\* C29: decoding a StringSet from the tagged form ["set", [s1, ..., sn]] of
\* strings yields Values equal to exactly [s1, ..., sn], the same length and
\* order and nothing more; decoding a bare string s yields exactly [s]; a
\* tagged form holding a non-string element fails with the not-a-string-set
\* error.
C29_StringSetDecoding ==
    opIn.op = "StringSet.UnmarshalJSON" =>
        /\ opIn.value.t = "str" =>
              /\ opOut.err = ""
              /\ opOut.target.Values.e = <<opIn.value.v>>
        /\ (opIn.value.t = "arr" /\ TaggedArray(opIn.value, setMagic)) =>
              IF \A i \in 1..Len(opIn.value.v[2].v) : opIn.value.v[2].v[i].t = "str"
              THEN /\ opOut.err = ""
                   /\ opOut.target.Values.e = WireStrings(opIn.value)
              ELSE opOut.err = errNotStringSet

\* C30: a successful decode of a Set or of a Map replaces the contents of
\* the target: the target then holds exactly what the same input gives in a
\* target that held nothing, whatever it held before.
C30_DecodeReplaces ==
    /\ (opIn.op = "Set.UnmarshalJSON" /\ opOut.err = "") =>
          opOut.target.Values.e =
              SetUnmarshalJSON(Set(NilSlice), opIn.value).target.Values.e
    /\ (opIn.op = "Map.UnmarshalJSON" /\ opOut.err = "") =>
          opOut.target.Values.e =
              MapUnmarshalJSON(Map(NilSlice), opIn.value).target.Values.e

\* ---------------------------------------------------------------------------
\* Claims about the decoding of a transact reply, checked under SpecTransact
\* ---------------------------------------------------------------------------

\* C25: the classification of a reply element depends on that element only:
\* an object without an error key is recorded as the raw payload whatever
\* precedes it in the reply, also after an error object, and a recorded
\* Error holds the Err and the Details of its own element.
C25_ElementClassifiedAlone ==
    (ReturnedOk /\ txReply # NoReply /\ txReply.t = "arr") =>
        \A i \in 1..Len(txResult.Results) :
            /\ (txReply.v[i].t = "obj" /\ ~IsErrorObject(txReply.v[i])) =>
                  txResult.Results[i] = RawResult(txReply.v[i])
            /\ txResult.Results[i].k = "Error" =>
                  /\ IsErrorObject(txReply.v[i])
                  /\ txResult.Results[i] = Classified(i, txReply.v[i])

\* The member of the error object e under key is absent or is no string.
NotAString(e, key) == key \in ObjKeys(e) /\ ObjGet(e, key).t # "str"

\* C26: an error object without a details member, or with an error or a
\* details member that is no string, is decoded without crashing: the first
\* is recorded as an Error with its Err and an empty Details in both Results
\* and Errors, the second makes the decode return an error.
C26_ErrorObjectNeverCrashes ==
    (txReply # NoReply /\ txReply.t = "arr") =>
        /\ txPc # "panicked"
        /\ (\E i \in 1..Len(txReply.v) :
                /\ IsErrorObject(txReply.v[i])
                /\ NotAString(txReply.v[i], "error")
                      \/ NotAString(txReply.v[i], "details")) =>
              txErr # ""
        /\ ReturnedOk =>
              \A i \in 1..Len(txReply.v) :
                  (IsErrorObject(txReply.v[i])
                        /\ "details" \notin ObjKeys(txReply.v[i])) =>
                      /\ txResult.Results[i].k = "Error"
                      /\ txResult.Results[i].Err = ObjGet(txReply.v[i], "error").v
                      /\ txResult.Results[i].Details = ""
                      /\ \E j \in 1..Len(txResult.Errors) :
                            txResult.Errors[j] = txResult.Results[i]

\* ---------------------------------------------------------------------------
\* Claims about handlers and the registry lock, checked under SpecSession
\* ---------------------------------------------------------------------------

\* The step in which the handler of the notification dispatched on p returns
\* or panics.
Invoked(p) == disp[p].pc = "found" /\ disp'[p].pc # "found"

\* C21: a Client on which no handler was set uses a handler that does
\* nothing: its notifications complete without error and change no state.
\* A notification dispatched after SetNotificationHandler(h) has returned is
\* delivered to h, never to a handler set before (h a handler, not nil);
\* and SetNotificationHandler leaves the registry and its lock as they were.
C21_HandlerSwapStep ==
    /\ (\E c \in 1..Len(sess) :
            /\ Len(sess') = Len(sess)
            /\ sess'[c].handler # sess[c].handler
                  \/ sess'[c].written # sess[c].written) =>
          /\ clientsMap' = clientsMap
          /\ clientsLock' = clientsLock
    /\ \A p \in RpcClients :
          Invoked(p) =>
              /\ (~disp[p].overtaken
                        /\ sess[disp[p].client].handler # NilHandler) =>
                    delivered'.handler = sess[disp[p].client].handler
              /\ delivered'.handler = DefaultHandler =>
                    /\ delivered'.err = ""
                    /\ disp'[p] = IdleHandler
                    /\ UNCHANGED <<sess, clientsMap, clientsLock, opVars, txVars>>

C22_LockNotifications ==
    /\ delivered.method \in {"locked", "stolen"} =>
          IF Len(delivered.params) = 1 /\ delivered.params[1].t = "str"
          THEN /\ delivered.err = ""
               /\ delivered.client \in 1..Len(sess)
               /\ sess[delivered.client].rpc = delivered.conn
               /\ delivered.handler \in sess[delivered.client].written
               /\ delivered.arg = delivered.params[1]
               /\ delivered.called =
                     IF delivered.handler = NilHandler THEN "panic"
                     ELSE IF delivered.method = "locked" THEN "Locked"
                     ELSE "Stolen"
          ELSE /\ delivered.err # ""
               /\ delivered.called = "none"
    /\ (delivered.method = "update" /\ Len(delivered.params) # 2) =>
          /\ delivered.err # ""
          /\ delivered.called = "none"

\* Locked has been invoked with the lock name on a handler the caller set.
C22_Witness ==
    /\ delivered.method = "locked"
    /\ delivered.params = <<JStr("lockA")>>
    /\ delivered.called = "Locked"
    /\ delivered.handler = "h1"
    /\ delivered.arg = JStr("lockA")

\* C27: whatever Dial and SetNotificationHandler calls were made, a nil
\* handler included, the handler of every registered Client is not nil, and
\* no dispatch invokes a method on a nil handler.
C27_HandlerNeverNil ==
    /\ \A c \in 1..Len(sess) : sess[c].handler # NilHandler
    /\ delivered.called # "panic"
    /\ Alive

\* The goroutines that hold clientsLock for reading.
Readers == {p \in RpcClients : disp[p].pc = "rlocked"}

\* The Dial calls that hold clientsLock for writing.
Writers == {c \in 1..Len(sess) : sess[c].pc = "locked"}

\* C28: clientsMap is read under the read lock only and written under the
\* write lock only, and the read lock is released before the handler
\* method is invoked: a handler that runs holds no lock, so it blocks
\* neither a Dial nor the dispatch on another connection.
C28_LockState ==
    /\ clientsLock.readers = Cardinality(Readers)
    /\ clientsLock.writer <=> Writers # {}
    /\ Cardinality(Writers) <= 1
    /\ clientsLock.writer => clientsLock.readers = 0
    /\ (Readers = {} /\ Writers = {}) => clientsLock = [writer |-> FALSE, readers |-> 0]

C28_LockDiscipline ==
    /\ []C28_LockState
    /\ [][clientsMap' # clientsMap => clientsLock.writer]_vars

\* A handler is about to run for one connection while a Dial holds the
\* write lock and no reader is left.
C28_Witness ==
    /\ \E p \in RpcClients : disp[p].pc = "found"
    /\ Writers # {}
    /\ clientsLock = [writer |-> TRUE, readers |-> 0]

\* ---------------------------------------------------------------------------
\* Claims about the lifetime of a Client, checked under SpecLifetime
\* ---------------------------------------------------------------------------

\* C23: the close of a connection removes its Client from the registry:
\* clientsMap holds an entry for every Client whose Dial has registered it
\* and whose connection is open, and none for a closed connection.
C23_RegistryIsLive ==
    \A c \in 1..Len(sess) :
        /\ sess[c].pc \in {"registered", "running"} =>
              /\ sess[c].rpc \in DOMAIN clientsMap
              /\ clientsMap[sess[c].rpc] = c
        /\ sess[c].pc = "closed" => sess[c].rpc \notin DOMAIN clientsMap

\* C24: after a successful GetSchema(db) the schema that was loaded is in
\* the schema cache of the Client under db.
C24_SchemaCached ==
    (opIn.op = "GetSchema" /\ opOut.err = "") =>
        /\ opIn.db \in DOMAIN sess[opIn.client].schemas
        /\ sess[opIn.client].schemas[opIn.db] = opOut.target

=============================================================================
